---- MODULE Spec2Model ----
(***************************************************************************)
(* The tunnel routing engine of localtunnel-server: the per-client Proxy   *)
(* (src/proxy.js: listener, idle tunnel sockets, waiting handlers, the     *)
(* idle-destroy timer) and the server module (src/unnamed/part_000: the    *)
(* clients registry, stats, maybe_bounce, new_client).                     *)
(*                                                                         *)
(* Node runs one event handler at a time, to completion: each action below *)
(* is one event handler (with the promise continuations it queues and that *)
(* run before the next event).  The environment (the net module, peers,    *)
(* the tunnel client) is the nondeterministic part: which event comes next.*)
(***************************************************************************)
EXTENDS Integers, Sequences, FiniteSets

\* ---------------------------------------------------------------- bounds
NumIds == 2              \* subdomain ids in play
MaxCap == 2              \* opt.max_tcp_sockets is drawn from 1..MaxCap
MaxProxies == 1          \* Spec: new_client calls in a behaviour
MaxConns == 2            \* Spec: tunnel connections accepted in a behaviour
MaxReqs == 2             \* Spec: public requests dispatched in a behaviour
RegProxies == 2          \* SpecReg: the same three
RegConns == 1
RegReqs == 1

Ids == 1..NumIds
None == 0                \* null / undefined / a missing map entry
NoSubdomain == -1        \* a Host header whose name has no subdomain label

VARIABLES
    clients,          \* part_000:50   id -> client (index into proxies), or None
    stats,            \* part_000:53   stats.tunnels
    max_tcp_sockets,  \* opt.max_tcp_sockets, given to every Proxy
    close_throws,     \* the build: does server.close() throw when not running
    proxies,          \* the Proxy objects made so far, in creation order
    socks,            \* the tunnel connections accepted so far
    reqs,             \* the public requests dispatched so far (and their handler)
    calls             \* log of handler invocations: <<request, argument>>

vars == <<clients, stats, max_tcp_sockets, close_throws, proxies, socks, reqs, calls>>

\* ------------------------------------------------------------- helpers
Range(s) == {s[i] : i \in DOMAIN s}

\* Array.prototype.indexOf / splice(idx, 1) on a list without duplicates
Remove(s, x) == SelectSeq(s, LAMBDA y : y # x)

\* sock.destroyed
Destroyed(s) == socks[s].state \in {"destroyed", "closed"}

\* connections of p's listener that are still alive (net.Server counts them,
\* admitted or not, until they are destroyed)
Connections(p) == {s \in DOMAIN socks : socks[s].proxy = p /\ socks[s].state = "open"}

\* A callback is queued for the next tick: the listen callback of a tunnel
\* that was just started, or the 'close' event of a listener that has stopped
\* and has no connection left.  Node runs these before any other event.
TickDue ==
    \E p \in DOMAIN proxies :
        \/ proxies[p].server = "binding"
        \/ proxies[p].server = "closing" /\ Connections(p) = {}

\* A destroyed socket's 'close' event is still to come.  It comes within the
\* turn of the event loop that destroyed the socket, so before any timer fires.
ClosePending ==
    \E s \in DOMAIN socks : socks[s].admitted /\ socks[s].state = "destroyed"

\* ------------------------------------------------------- the handler
\* A handler without the `else if (!socket)` branch of lines 143-158: called
\* with null it returns and leaves the peer unanswered.  C15 must not hold of it.
InvokeNullIgnored(rec, arg) ==
    IF rec.finished \/ arg = None
      THEN [rec EXCEPT !.st = "done"]
      ELSE [rec EXCEPT !.st = "running", !.sock = arg]

\* The async closure that maybe_bounce hands to next_socket, called with `arg`
\* (a tunnel socket, or None).  It returns at once when the peer has finished
\* and when arg is null; otherwise it writes the request to the socket and
\* stays pending until the exchange is over (HandlerComplete).
Invoke(rec, arg) ==
    IF rec.finished
      THEN [rec EXCEPT !.st = "done"]
      ELSE IF arg = None
        THEN [rec EXCEPT !.st = "done",
                         !.status = IF rec.upgrade THEN @ ELSE 504,
                         !.peer = "destroyed"]
        ELSE [rec EXCEPT !.st = "running", !.sock = arg]

\* ---------------------------------------------------------- the pool
\* Proxy.prototype._process_waiting: the head waiter is shifted off, and the
\* next statement, logger.ingo(...), is a call of a method the winston logger
\* does not have: it throws a TypeError, so next_socket(wait_cb) is never
\* reached.  The exception leaves the caller (the 'connection' handler, or the
\* promise continuation of next_socket) and is reported outside this module.
ProcessWaiting(px) ==
    IF px.waiting # <<>> THEN [px EXCEPT !.waiting = Tail(@)] ELSE px

\* The .finally continuation of next_socket, once the handler's promise settles.
Finally(px, sock) ==
    LET px1 == IF ~Destroyed(sock)
                 THEN [px EXCEPT !.sockets = Append(@, sock)]
                 ELSE px
    IN  IF Len(px1.sockets) = 0 THEN px1 ELSE ProcessWaiting(px1)

\* A next_socket that reads the head of self.sockets without shifting it off (line
\* 195): the socket it lends stays in the idle list.  C18 must not hold of it.
NextSocketNoShift(px, r, rec) ==
    IF px.sockets = <<>>
      THEN [px |-> [px EXCEPT !.waiting = Append(@, r)],
            req |-> [rec EXCEPT !.st = "waiting"],
            calls |-> calls]
      ELSE LET sock == Head(px.sockets)
               rec1 == Invoke(rec, sock)
           IN  [px |-> IF rec1.st = "done" THEN Finally(px, sock) ELSE px,
                req |-> rec1,
                calls |-> Append(calls, <<r, sock>>)]

\* Proxy.prototype.next_socket(handler), handler being request r's (record rec):
\* the new proxy record, request record and invocation log.
NextSocket(px, r, rec) ==
    IF px.sockets = <<>>
      THEN [px |-> [px EXCEPT !.waiting = Append(@, r)],
            req |-> [rec EXCEPT !.st = "waiting"],
            calls |-> calls]
      ELSE LET sock == Head(px.sockets)
               px1 == [px EXCEPT !.sockets = Tail(@)]
               rec1 == Invoke(rec, sock)
           IN  [px |-> IF rec1.st = "done" THEN Finally(px1, sock) ELSE px1,
                req |-> rec1,
                calls |-> Append(calls, <<r, sock>>)]

\* The 'end' listener new_client installs on the client.
OnEnd(p) ==
    /\ stats' = stats - 1
    /\ clients' = [clients EXCEPT ![proxies[p].id] = None]

\* Proxy.prototype._cleanup, leaving the listener in state srv: the timer is
\* cleared, every handler in `waiting` is called with null, in order (the
\* array itself is left as it is), and 'end' is emitted.
Cleanup(p, srv) ==
    LET w == proxies[p].waiting IN
    /\ proxies' = [proxies EXCEPT ![p].conn_timeout = FALSE,
                                  ![p].server = srv,
                                  ![p].ends = @ + 1]
    /\ reqs' = [r \in DOMAIN reqs |->
                  IF r \in Range(w) THEN Invoke(reqs[r], None) ELSE reqs[r]]
    /\ calls' = calls \o [i \in 1..Len(w) |-> <<w[i], None>>]
    /\ OnEnd(p)

\* ------------------------------------------------------------ actions
\* new_client(id, opt, cb), up to and including client.start(): req_id is the
\* id asked for (by GET /:req_id, or drawn by GET /?new), rnd is what rand_id()
\* returns if new_client calls it.  Proxy.prototype.start never reports
\* 'already started' for a new Proxy, so new_client's error branch is dead.
NewClient(req_id, rnd, bound) ==
    /\ Len(proxies) < bound
    /\ ~TickDue
    /\ LET id == IF clients[req_id] # None THEN rnd ELSE req_id
           p == Len(proxies) + 1
       IN  /\ proxies' = Append(proxies,
                 [id |-> id, req_id |-> req_id, started |-> TRUE,
                  server |-> "binding", conn_timeout |-> TRUE,
                  sockets |-> <<>>, waiting |-> <<>>, ends |-> 0])
           /\ clients' = [clients EXCEPT ![id] = p]
    /\ UNCHANGED <<stats, max_tcp_sockets, close_throws, socks, reqs, calls>>

\* The callback of server.listen, and in it new_client's start callback.
ListenCallback(p) ==
    /\ p \in DOMAIN proxies
    /\ proxies[p].server = "binding"
    /\ proxies' = [proxies EXCEPT ![p].server = "listening"]
    /\ stats' = stats + 1
    /\ UNCHANGED <<clients, max_tcp_sockets, close_throws, socks, reqs, calls>>

\* Proxy.prototype._handle_socket: the listener's 'connection' event.
HandleSocket(p, bound) ==
    /\ Len(socks) < bound
    /\ ~TickDue
    /\ proxies[p].server = "listening"
    /\ LET s == Len(socks) + 1 IN
       IF Len(proxies[p].sockets) >= max_tcp_sockets
         THEN /\ socks' = Append(socks, [proxy |-> p, admitted |-> FALSE, state |-> "open"])
              /\ UNCHANGED proxies
         ELSE /\ socks' = Append(socks, [proxy |-> p, admitted |-> TRUE, state |-> "open"])
              /\ proxies' = [proxies EXCEPT ![p] =
                    ProcessWaiting([@ EXCEPT !.conn_timeout = FALSE,
                                             !.sockets = Append(@, s)])]
    /\ UNCHANGED <<clients, stats, max_tcp_sockets, close_throws, reqs, calls>>

\* A dispatcher without the `if (!client)` branch of lines 83-97: it lets a
\* request for an unknown subdomain wait on the tunnel made first.  C16 must not
\* hold of it.
RequestNoClientCheck(host, upgrade, bound) ==
    /\ Len(reqs) < bound
    /\ ~TickDue
    /\ LET r == Len(reqs) + 1
           rec == [host |-> host, upgrade |-> upgrade, client |-> None,
                   finished |-> FALSE, st |-> "new", sock |-> None,
                   status |-> 0, peer |-> "open"]
       IN  IF host \notin Ids
             THEN /\ reqs' = Append(reqs,
                        IF upgrade
                          THEN [rec EXCEPT !.st = "refused", !.peer = "destroyed"]
                          ELSE [rec EXCEPT !.st = "app"])
                  /\ UNCHANGED <<proxies, calls>>
           ELSE IF clients[host] = None /\ proxies = <<>>
             THEN /\ reqs' = Append(reqs,
                        [rec EXCEPT !.st = "refused", !.peer = "destroyed",
                                    !.status = IF upgrade THEN @ ELSE 502])
                  /\ UNCHANGED <<proxies, calls>>
           ELSE LET p == IF clients[host] = None THEN 1 ELSE clients[host]
                    n == NextSocket(proxies[p], r, [rec EXCEPT !.client = p])
                IN  /\ reqs' = Append(reqs, n.req)
                    /\ proxies' = [proxies EXCEPT ![p] = n.px]
                    /\ calls' = n.calls
    /\ UNCHANGED <<clients, stats, max_tcp_sockets, close_throws, socks>>

\* The public server's 'request' (upgrade = FALSE) and 'upgrade' listeners, and
\* maybe_bounce: host is None (no Host header), NoSubdomain, or a subdomain id.
Request(host, upgrade, bound) ==
    /\ Len(reqs) < bound
    /\ ~TickDue
    /\ LET r == Len(reqs) + 1
           rec == [host |-> host, upgrade |-> upgrade, client |-> None,
                   finished |-> FALSE, st |-> "new", sock |-> None,
                   status |-> 0, peer |-> "open"]
       IN  IF host \notin Ids
             THEN /\ reqs' = Append(reqs,
                        IF upgrade
                          THEN [rec EXCEPT !.st = "refused", !.peer = "destroyed"]
                          ELSE [rec EXCEPT !.st = "app"])
                  /\ UNCHANGED <<proxies, calls>>
           ELSE IF clients[host] = None
             THEN /\ reqs' = Append(reqs,
                        [rec EXCEPT !.st = "refused", !.peer = "destroyed",
                                    !.status = IF upgrade THEN @ ELSE 502])
                  /\ UNCHANGED <<proxies, calls>>
           ELSE LET p == clients[host]
                    n == NextSocket(proxies[p], r, [rec EXCEPT !.client = p])
                IN  /\ reqs' = Append(reqs, n.req)
                    /\ proxies' = [proxies EXCEPT ![p] = n.px]
                    /\ calls' = n.calls
    /\ UNCHANGED <<clients, stats, max_tcp_sockets, close_throws, socks>>

\* The peer of a request whose handler may still be called finishes or goes
\* away: the on_finished callback (http), which also follows the response the
\* handler itself ended, or the peer socket's 'end' (upgrade), which a socket
\* that was destroyed no longer emits.
PeerFinish(r) ==
    /\ ~TickDue
    /\ ~reqs[r].finished
    /\ reqs[r].upgrade => reqs[r].peer = "open"
    /\ reqs[r].client # None
    /\ r \in Range(proxies[reqs[r].client].waiting)
    /\ reqs' = [reqs EXCEPT ![r].finished = TRUE,
                            ![r].peer = IF reqs[r].upgrade THEN "ended" ELSE "destroyed"]
    /\ UNCHANGED <<clients, stats, max_tcp_sockets, close_throws, proxies, socks, calls>>

\* The promise of a running handler settles (the response is complete, or the
\* tunnel socket of an upgrade has emitted 'end'), and next_socket's .finally
\* runs.  A socket that has emitted 'end' is destroyed once what is still to be
\* written to it has been flushed, which may be before or after .finally looks
\* at sock.destroyed: both orders are behaviours (SocketDestroy, then this).
HandlerComplete(r) ==
    /\ ~TickDue
    /\ reqs[r].st = "running"
    /\ reqs' = [reqs EXCEPT ![r].st = "done"]
    /\ proxies' = [proxies EXCEPT ![reqs[r].client] = Finally(@, reqs[r].sock)]
    /\ UNCHANGED <<clients, stats, max_tcp_sockets, close_throws, socks, calls>>

\* A tunnel connection is destroyed: its 'error' listener, or the client closing
\* it.  socket.destroyed is set now; 'close' is emitted by a later event.
SocketDestroy(s) ==
    /\ ~TickDue
    /\ socks[s].state = "open"
    /\ socks' = [socks EXCEPT ![s].state = "destroyed"]
    /\ UNCHANGED <<clients, stats, max_tcp_sockets, close_throws, proxies, reqs, calls>>

\* The 'close' listener _handle_socket attached to an admitted socket.
SocketClose(s) ==
    /\ s \in DOMAIN socks
    /\ ~TickDue
    /\ socks[s].admitted
    /\ socks[s].state = "destroyed"
    /\ socks' = [socks EXCEPT ![s].state = "closed"]
    /\ LET p == socks[s].proxy
           rest == Remove(proxies[p].sockets, s)
       IN  proxies' = [proxies EXCEPT ![p].sockets = rest,
                          ![p].conn_timeout = IF Len(rest) = 0 THEN TRUE ELSE @]
    /\ UNCHANGED <<clients, stats, max_tcp_sockets, close_throws, reqs, calls>>

\* The timer callback of _maybe_destroy.
\* server.close() on a listener that is no longer running either throws (and the
\* catch calls _cleanup at once) or returns, with a 'close' event due once the
\* listener has no connection left: that depends on the build.
TimerFire(p) ==
    /\ p \in DOMAIN proxies
    /\ ~TickDue
    /\ ~ClosePending
    /\ proxies[p].conn_timeout
    /\ IF proxies[p].server # "listening" /\ close_throws
         THEN Cleanup(p, proxies[p].server)
         ELSE /\ proxies' = [proxies EXCEPT ![p].conn_timeout = FALSE,
                                            ![p].server = "closing"]
              /\ UNCHANGED <<clients, stats, reqs, calls>>
    /\ UNCHANGED <<max_tcp_sockets, close_throws, socks>>

\* The listener's 'close' event, emitted once it has stopped listening and no
\* connection is left: _cleanup.
ServerClose(p) ==
    /\ p \in DOMAIN proxies
    /\ proxies[p].server = "closing"
    /\ Connections(p) = {}
    /\ Cleanup(p, "closed")
    /\ UNCHANGED <<max_tcp_sockets, close_throws, socks>>

\* ------------------------------------------------------ specifications
Init ==
    /\ clients = [i \in Ids |-> None]
    /\ stats = 0
    /\ max_tcp_sockets \in 1..MaxCap
    /\ close_throws \in BOOLEAN
    /\ proxies = <<>>
    /\ socks = <<>>
    /\ reqs = <<>>
    /\ calls = <<>>

Hosts == {None, NoSubdomain} \cup Ids

\* what rand_id() may return: any id of the valid format
RandId == Ids

Next ==
    \/ \E i \in Ids, rnd \in RandId : NewClient(i, rnd, MaxProxies)
    \/ \E p \in DOMAIN proxies : ListenCallback(p)
    \/ \E p \in DOMAIN proxies : HandleSocket(p, MaxConns)
    \/ \E h \in Hosts, u \in BOOLEAN : Request(h, u, MaxReqs)
    \/ \E r \in DOMAIN reqs : PeerFinish(r)
    \/ \E r \in DOMAIN reqs : HandlerComplete(r)
    \/ \E s \in DOMAIN socks : SocketDestroy(s)
    \/ \E s \in DOMAIN socks : SocketClose(s)
    \/ \E p \in DOMAIN proxies : TimerFire(p)
    \/ \E p \in DOMAIN proxies : ServerClose(p)

Spec == Init /\ [][Next]_vars

\* The registry and the tunnels' lives: more tunnels, fewer sockets and requests.
NextReg ==
    \/ \E i \in Ids, rnd \in RandId : NewClient(i, rnd, RegProxies)
    \/ \E p \in DOMAIN proxies : ListenCallback(p)
    \/ \E p \in DOMAIN proxies : HandleSocket(p, RegConns)
    \/ \E h \in Ids : Request(h, FALSE, RegReqs)
    \/ \E r \in DOMAIN reqs : PeerFinish(r)
    \/ \E r \in DOMAIN reqs : HandlerComplete(r)
    \/ \E s \in DOMAIN socks : SocketDestroy(s)
    \/ \E s \in DOMAIN socks : SocketClose(s)
    \/ \E p \in DOMAIN proxies : TimerFire(p)
    \/ \E p \in DOMAIN proxies : ServerClose(p)

\* What Node guarantees to happen: the listen callback is called, an armed
\* timer fires after its 5000 ms unless it is cleared first, a listener that has
\* stopped and has no connection left emits 'close', and a destroyed socket
\* emits 'close'.
SpecReg ==
    /\ Init
    /\ [][NextReg]_vars
    /\ \A p \in 1..RegProxies :
          WF_vars(ListenCallback(p)) /\ WF_vars(TimerFire(p)) /\ WF_vars(ServerClose(p))
    /\ \A s \in 1..RegConns : WF_vars(SocketClose(s))

\* The dispatcher with every kind of request (no Host header, no subdomain, an
\* unknown or a registered subdomain; http and upgrade) on a small system.
DispIds == 1             \* SpecDisp: subdomain ids asked for and requested
DispCap == 1             \* SpecDisp: opt.max_tcp_sockets is drawn from 1..DispCap
DispProxies == 1         \* SpecDisp: new_client calls in a behaviour
DispConns == 1           \* SpecDisp: tunnel connections accepted in a behaviour
DispReqs == 1            \* SpecDisp: public requests dispatched in a behaviour

InitDisp ==
    /\ clients = [i \in Ids |-> None]
    /\ stats = 0
    /\ max_tcp_sockets \in 1..DispCap
    /\ close_throws \in BOOLEAN
    /\ proxies = <<>>
    /\ socks = <<>>
    /\ reqs = <<>>
    /\ calls = <<>>

NextDisp ==
    \/ \E i \in 1..DispIds, rnd \in 1..DispIds : NewClient(i, rnd, DispProxies)
    \/ \E p \in DOMAIN proxies : ListenCallback(p)
    \/ \E p \in DOMAIN proxies : HandleSocket(p, DispConns)
    \/ \E h \in {None, NoSubdomain} \cup 1..DispIds, u \in BOOLEAN : Request(h, u, DispReqs)
    \/ \E r \in DOMAIN reqs : PeerFinish(r)
    \/ \E r \in DOMAIN reqs : HandlerComplete(r)
    \/ \E s \in DOMAIN socks : SocketDestroy(s)
    \/ \E s \in DOMAIN socks : SocketClose(s)
    \/ \E p \in DOMAIN proxies : TimerFire(p)
    \/ \E p \in DOMAIN proxies : ServerClose(p)

SpecDisp == InitDisp /\ [][NextDisp]_vars

\* ------------------------------------------------ terms of the claims
\* how often request r's handler has been called
Invocations(r) == Cardinality({i \in DOMAIN calls : calls[i][1] = r})

\* the requests that called next_socket on tunnel p
HandlersOf(p) == {r \in DOMAIN reqs : reqs[r].client = p}

\* the sockets of p lent to a handler that is still running
Lent(p) == {reqs[r].sock : r \in {x \in HandlersOf(p) : reqs[x].st = "running"}}

\* the sockets p's pool tracks: idle or lent, and not yet closed
Tracked(p) == {s \in Range(proxies[p].sockets) \cup Lent(p) : socks[s].state # "closed"}

\* this step is _handle_socket on p admitting socket s
Admits(p, s) ==
    /\ Len(socks') = Len(socks) + 1
    /\ s = Len(socks')
    /\ socks'[s] = [proxy |-> p, admitted |-> TRUE, state |-> "open"]

\* this step emits 'end' on p
EmitsEnd(p) == proxies'[p].ends > proxies[p].ends

\* C1: every handler passed to next_socket is invoked at most once in total,
\* with a socket or with null, whatever accepts, completions, closes, timer
\* firings and cleanups happen.
C1_AtMostOnce == \A r \in DOMAIN reqs : Invocations(r) <= 1

\* C2: no handler is dropped: a handler passed to next_socket that has not
\* been invoked yet is still in its pool's waiter queue (so that it can be
\* invoked, with a socket or with null).
C2_NoWaiterDropped ==
    \A r \in DOMAIN reqs :
        (reqs[r].client # None /\ Invocations(r) = 0)
            => r \in Range(proxies[reqs[r].client].waiting)

\* C3: FIFO lending: when a socket is admitted while handlers wait and no
\* socket is idle, the oldest waiter is lent that socket within the admit step.
C3_FifoLending ==
    [][\A p \in DOMAIN proxies : \A s \in {Len(socks) + 1} :
          (Admits(p, s) /\ proxies[p].sockets = <<>> /\ proxies[p].waiting # <<>>)
              => /\ calls' = Append(calls, <<Head(proxies[p].waiting), s>>)
                 /\ proxies'[p].waiting = Tail(proxies[p].waiting)]_vars

\* C4: cap: a pool never tracks more than max_tcp_sockets sockets (idle plus
\* lent, not yet closed), and a connection accepted while it tracks that many
\* is ended by the server, not admitted.
C4_Cap ==
    /\ [](\A p \in DOMAIN proxies : Cardinality(Tracked(p)) <= max_tcp_sockets)
    /\ [][\A p \in DOMAIN proxies :
            (/\ Len(socks') = Len(socks) + 1
             /\ socks'[Len(socks')].proxy = p
             /\ Cardinality(Tracked(p)) = max_tcp_sockets)
                => ~socks'[Len(socks')].admitted]_vars

\* C5: 'end' is emitted at most once over a tunnel's life.
C5_EndOnce == \A p \in DOMAIN proxies : proxies[p].ends <= 1

\* the calls with null made to handlers of tunnel p, in order
NullCalls(p) == SelectSeq(calls, LAMBDA c : c[2] = None /\ reqs[c[1]].client = p)

\* C6: shutdown fairness: the handlers of a tunnel that were invoked with null
\* were so invoked in the order they were enqueued (requests are numbered in
\* arrival order), each once, and a handler invoked with null has no other
\* invocation.
C6_ShutdownFairness ==
    /\ \A p \in DOMAIN proxies : \A i, j \in DOMAIN NullCalls(p) :
          i < j => NullCalls(p)[i][1] < NullCalls(p)[j][1]
    /\ \A r \in DOMAIN reqs :
          (\E i \in DOMAIN calls : calls[i] = <<r, None>>) => Invocations(r) = 1

\* C7: id uniqueness: two tunnels that have been created and have not ended
\* never have the same id.
C7_IdUnique ==
    \A p, q \in DOMAIN proxies :
        (p # q /\ proxies[p].ends = 0 /\ proxies[q].ends = 0)
            => proxies[p].id # proxies[q].id

\* C8: idle GC: when the timer of a listening tunnel fires while its pool
\* tracks no socket, the tunnel closes: the listener stops and its 'close'
\* event, whose handler emits 'end', is due at once; the step that emits 'end'
\* leaves the registry without the tunnel's id; admitting a socket clears the
\* timer, and a listener stops only when its armed timer fires.
C8_IdleGC ==
    [][\A p \in DOMAIN proxies :
          /\ (/\ proxies[p].server = "listening"
              /\ proxies'[p].server = "closing"
              /\ Tracked(p) = {})
                => Connections(p) = {}
          /\ EmitsEnd(p) => clients'[proxies[p].id] = None
          /\ (\E s \in {Len(socks) + 1} : Admits(p, s)) => ~proxies'[p].conn_timeout
          /\ (proxies[p].server = "listening" /\ proxies'[p].server # "listening")
                => (proxies[p].conn_timeout /\ ~proxies'[p].conn_timeout)]_vars

\* C9: peer-disconnect safety: when the oldest waiter, whose peer has finished,
\* comes to be served (it is taken off the queue while the tunnel stays up) and
\* another handler waits behind it, nothing is written to a socket on behalf of
\* the finished one and the next waiter is lent a live socket in that step.
C9_PeerDisconnect ==
    [][\A p \in DOMAIN proxies :
          (/\ Len(proxies[p].waiting) >= 2
           /\ reqs[proxies[p].waiting[1]].finished
           /\ ~reqs[proxies[p].waiting[2]].finished
           /\ proxies'[p].waiting = Tail(proxies[p].waiting))
              => /\ reqs'[proxies[p].waiting[1]].sock = None
                 /\ reqs'[proxies[p].waiting[2]].st = "running"
                 /\ socks'[reqs'[proxies[p].waiting[2]].sock].state = "open"]_vars

\* no listen callback, listener 'close' or socket 'close' event is pending
Quiescent == ~TickDue /\ ~ClosePending

\* C10: conservation: in every quiescent state (no event of a socket or a
\* listener is pending) every admitted socket that is not closed is either in
\* the idle list, once, or lent to exactly one running handler, never both, and
\* no destroyed socket is in the idle list; and no destroyed socket is ever
\* handed to a handler.
C10_Conservation ==
    /\ [](Quiescent =>
            \A p \in DOMAIN proxies :
              /\ \A s \in DOMAIN socks :
                    (socks[s].proxy = p /\ socks[s].admitted /\ socks[s].state # "closed")
                      => Cardinality({i \in DOMAIN proxies[p].sockets : proxies[p].sockets[i] = s})
                          + Cardinality({r \in HandlersOf(p) :
                                           reqs[r].st = "running" /\ reqs[r].sock = s}) = 1
              /\ \A s \in Range(proxies[p].sockets) : ~Destroyed(s))
    /\ [][\A i \in (Len(calls) + 1)..Len(calls') :
            calls'[i][2] # None => ~Destroyed(calls'[i][2])]_vars

\* C11: whenever a pool's waiter queue is non-empty (while its tunnel has not
\* been cleaned up) its idle list is empty: no state between events has both
\* a waiting handler and an idle tunnel socket in the same pool.
C11_WaitersImplyNoIdle ==
    \A p \in DOMAIN proxies :
        (proxies[p].ends = 0 /\ proxies[p].waiting # <<>>) => proxies[p].sockets = <<>>

\* C12: a tunnel socket lent to an upgrade request is consumed: once the
\* bridge has completed the socket is not in the idle list, and no socket that
\* was lent to an upgrade request is lent again later.
C12_UpgradeConsumes ==
    /\ \A r \in DOMAIN reqs :
          (reqs[r].upgrade /\ reqs[r].sock # None /\ reqs[r].st = "done")
              => reqs[r].sock \notin Range(proxies[reqs[r].client].sockets)
    /\ \A i, j \in DOMAIN calls :
          (/\ i < j
           /\ reqs[calls[i][1]].upgrade
           /\ reqs[calls[i][1]].sock # None
           /\ reqs[calls[i][1]].sock = calls[i][2])
              => calls[j][2] # calls[i][2]

\* this step is the completion of request r's running handler
Completes(r) == reqs[r].st = "running" /\ reqs'[r].st = "done"

\* C13: backpressure and release: when a handler completes and its socket is
\* not destroyed, the socket goes to the tail of the idle list and, if a
\* handler is waiting, the oldest waiter is lent the head idle socket in that
\* same step (so with one socket, a second request that waits is issued on the
\* socket the first one returns).
C13_Release ==
    [][\A r \in DOMAIN reqs :
          (Completes(r) /\ ~Destroyed(reqs[r].sock))
              => LET p == reqs[r].client
                     idle == Append(proxies[p].sockets, reqs[r].sock)
                 IN  IF proxies[p].waiting = <<>>
                       THEN proxies'[p].sockets = idle /\ calls' = calls
                       ELSE /\ Len(calls') > Len(calls)
                            /\ calls'[Len(calls) + 1]
                                 = <<Head(proxies[p].waiting), Head(idle)>>]_vars

\* C14: tunnels_count equals the number of tunnels that have started and not
\* yet ended, and is never negative.
C14_TunnelsCount ==
    /\ stats >= 0
    /\ stats = Cardinality({p \in DOMAIN proxies :
                              proxies[p].server # "binding" /\ proxies[p].ends = 0})

\* C15: pool drained: every handler invoked with null whose peer has not
\* already finished ends, on the http branch, with a 504 response and the peer
\* connection destroyed, and on the upgrade branch with the peer socket
\* destroyed; in neither case is a tunnel socket touched.
C15_PoolDrained ==
    [][\A i \in (Len(calls) + 1)..Len(calls') :
          (calls'[i][2] = None /\ ~reqs[calls'[i][1]].finished)
              => LET r == calls'[i][1] IN
                 /\ reqs'[r].peer = "destroyed"
                 /\ ~reqs[r].upgrade => reqs'[r].status = 504
                 /\ reqs'[r].st = "done"
                 /\ reqs'[r].sock = None
                 /\ socks' = socks]_vars

\* a handler was invoked with null before its peer finished and answered 504
C15_Witness ==
    \E i \in DOMAIN calls :
        /\ calls[i][2] = None
        /\ ~reqs[calls[i][1]].finished
        /\ reqs[calls[i][1]].status = 504
        /\ reqs[calls[i][1]].peer = "destroyed"

\* this step dispatches a public request
Dispatches == Len(reqs') = Len(reqs) + 1

\* C16: dispatch decision table: a request with no Host header or no subdomain
\* goes to the management app (http) or has its peer socket destroyed
\* (upgrade); a request for a subdomain that is not in the registry gets 502
\* and its connection destroyed (http) or its peer socket destroyed (upgrade);
\* in these cases no pool and no invocation log changes; and a request calls
\* next_socket (it is then queued or invoked) exactly when its subdomain is
\* registered.
C16_Dispatch ==
    [][Dispatches =>
         LET r == Len(reqs')
             q == reqs'[r]
             registered == q.host \in Ids /\ clients[q.host] # None
         IN  /\ q.host \in {None, NoSubdomain}
                  => /\ q.st = IF q.upgrade THEN "refused" ELSE "app"
                     /\ q.peer = IF q.upgrade THEN "destroyed" ELSE "open"
                     /\ q.status = 0
             /\ (q.host \in Ids /\ clients[q.host] = None)
                  => /\ q.st = "refused"
                     /\ q.peer = "destroyed"
                     /\ q.status = IF q.upgrade THEN 0 ELSE 502
             /\ ~registered
                  => /\ proxies' = proxies
                     /\ calls' = calls
                     /\ q.client = None /\ q.sock = None
             /\ registered
                  => /\ q.client = clients[q.host]
                     /\ \/ r \in Range(proxies'[q.client].waiting)
                        \/ \E i \in (Len(calls) + 1)..Len(calls') : calls'[i][1] = r
             /\ (\E p \in DOMAIN proxies' : r \in Range(proxies'[p].waiting))
                  => registered
             /\ (\E i \in DOMAIN calls' : calls'[i][1] = r) => registered]_vars

\* a request for a subdomain that is not registered was answered 502 while a
\* tunnel exists
C16_Witness ==
    \E r \in DOMAIN reqs :
        /\ reqs[r].host \in Ids /\ reqs[r].status = 502 /\ reqs[r].peer = "destroyed"
        /\ proxies # <<>>

\* the requests whose handler holds a tunnel socket (lent, not yet completed)
Holders == {r \in DOMAIN reqs : reqs[r].st = "running"}

CreateResponse(p) == [id |-> proxies[p].id, url |-> proxies[p].req_id]

\* C17: in every successful create response the subdomain label of url is the
\* id of the same response, the id under which the tunnel is registered, also
\* when new_client replaced a requested id that was in use.
C17_UrlMatchesId ==
    \A p \in DOMAIN proxies :
        proxies[p].server # "binding" => CreateResponse(p).url = CreateResponse(p).id

\* C19: the close of a socket arms the idle-destroy timer only when the pool
\* then tracks no socket at all, idle or lent; and the timer never stops the
\* listener of a tunnel whose pool still tracks a live socket.
C19_ArmOnlyWhenEmpty ==
    [][\A p \in DOMAIN proxies :
          /\ (/\ ~proxies[p].conn_timeout
              /\ proxies'[p].conn_timeout
              /\ \E s \in DOMAIN socks : socks[s].state # "closed" /\ socks'[s].state = "closed")
                => Tracked(p)' = {}
          /\ (proxies[p].server = "listening" /\ proxies'[p].server = "closing")
                => \A s \in Tracked(p) : Destroyed(s)]_vars

\* C20: once a tunnel's _cleanup has run, its waiter queue and its idle list
\* are empty, and no socket is admitted to its pool afterwards.
C20_AfterShutdown ==
    /\ [](\A p \in DOMAIN proxies :
            proxies[p].ends > 0 => proxies[p].waiting = <<>> /\ proxies[p].sockets = <<>>)
    /\ [][\A p \in DOMAIN proxies :
            proxies[p].ends > 0 => ~(\E s \in {Len(socks) + 1} : Admits(p, s))]_vars

\* C21: registry integrity: every tunnel that has been created and has not
\* ended is the value the registry holds under the tunnel's own id, and a step
\* in which a tunnel ends leaves every registry entry that holds a different
\* tunnel as it is.
C21_RegistryIntegrity ==
    /\ [](\A p \in DOMAIN proxies :
            proxies[p].ends = 0 => clients[proxies[p].id] = p)
    /\ [][\A p \in DOMAIN proxies :
            EmitsEnd(p) => \A i \in Ids :
                (clients[i] # None /\ clients[i] # p) => clients'[i] = clients[i]]_vars

====
